---- MODULE Spec2Model ----
(***************************************************************************)
(* Model of the snowball point-accumulation gadgets:                       *)
(*   - NonZeroAffineVarGeneric::add_unchecked / conditionally_select       *)
(*   - SumAccumulator::init / add (native, emulated) / finalize            *)
(*   - ApkCircuit::generate_constraints                                    *)
(* over a scaled-down short Weierstrass curve y^2 = x^3 + 1 (the shape of  *)
(* BLS12-377 G1) on a small prime field.  Plain values of circuit          *)
(* variables are field elements 0..Modulus-1; the constraint system is     *)
(* modelled by the conjunction of the constraints enforced so far.         *)
(***************************************************************************)
EXTENDS Integers, Sequences, FiniteSets, TLC

VARIABLES entry, regime, keys, seed, packed_bits, pc, i, acc, sum,
          curr_sum, satisfied, shape

vars == <<entry, regime, keys, seed, packed_bits, pc, i, acc, sum,
          curr_sum, satisfied, shape>>

(***************************************************************************)
(* Bounds                                                                  *)
(***************************************************************************)
MaxPts == 4

MaxKeys == 4

(***************************************************************************)
(* The base field P::BaseField and its operations (ark_ff::Field)          *)
(***************************************************************************)
Modulus == 5

CoeffA == 0

CoeffB == 1

Fp == 0 .. (Modulus - 1)

None == << >>

Some(v) == << v >>

FAdd(a, b) == (a + b) % Modulus

FSub(a, b) == (a + Modulus - b) % Modulus

FMul(a, b) == (a * b) % Modulus

FSquare(a) == (a * a) % Modulus

\* Field::inverse: None for zero
FInverse(d) ==
    IF d = 0 THEN None
    ELSE Some(CHOOSE v \in 1 .. (Modulus - 1) : (v * d) % Modulus = 1)

\* MODULUS_BIT_SIZE of the constraint field
ModulusBits == CHOOSE n \in 1 .. 16 : 2 ^ (n - 1) <= Modulus /\ Modulus < 2 ^ n

(***************************************************************************)
(* Affine<P>: the curve points, and the reference group law                *)
(***************************************************************************)
OnCurve(x, y) ==
    FSquare(y) = FAdd(FAdd(FMul(FSquare(x), x), FMul(CoeffA, x)), CoeffB)

\* plain non-identity points, as held by a NonZeroAffineVarGeneric
CurvePoints == { pt \in [x : Fp, y : Fp] : OnCurve(pt.x, pt.y) }

NoPoint == [x |-> 0, y |-> 0]

Identity == [x |-> 0, y |-> 0, infinity |-> TRUE]

ToAffine(pt) == [x |-> pt.x, y |-> pt.y, infinity |-> FALSE]

\* complete affine addition law of the group (identity, inverse, doubling, chord)
RefAdd(a, b) ==
    IF a.infinity THEN b
    ELSE IF b.infinity THEN a
    ELSE IF a.x = b.x /\ FAdd(a.y, b.y) = 0 THEN Identity
    ELSE LET s == IF a.x = b.x
                  THEN FMul(FAdd(FMul(3, FSquare(a.x)), CoeffA),
                            FInverse(FMul(2, a.y))[1])
                  ELSE FMul(FSub(b.y, a.y), FInverse(FSub(b.x, a.x))[1])
             x3 == FSub(FSub(FSquare(s), a.x), b.x)
         IN [x |-> x3, y |-> FSub(FMul(s, FSub(a.x, x3)), a.y), infinity |-> FALSE]

RECURSIVE RefSum(_)
RefSum(pts) ==
    IF Len(pts) = 0 THEN Identity
    ELSE RefAdd(RefSum(SubSeq(pts, 1, Len(pts) - 1)), ToAffine(pts[Len(pts)]))

(***************************************************************************)
(* Field gadgets consumed from the constraint-system library               *)
(***************************************************************************)
\* FieldVar::mul_by_inverse_unchecked: allocates the witness
\* result = n * d.inverse().unwrap_or(0) and enforces result * d = n; it
\* returns Ok for d = 0 too, which is why init and add assert on d first
mul_by_inverse_unchecked(n, d) ==
    LET inv == FInverse(d)
        result == FMul(n, IF inv = None THEN 0 ELSE inv[1])
    IN [value |-> result, sat |-> (FMul(result, d) = n)]

\* ToBitsGadget::to_bits_le of an FpVar: MODULUS_BIT_SIZE little-endian bits
to_bits_le(v) == [k \in 1 .. ModulusBits |-> ((v \div (2 ^ (k - 1))) % 2) = 1]

\* Boolean::select on one coordinate
select(cond, t, f) == IF cond THEN t ELSE f

Min(a, b) == IF a <= b THEN a ELSE b

(***************************************************************************)
(* NonZeroAffineVarGeneric                                                 *)
(***************************************************************************)
new(x, y) == [x |-> x, y |-> y]

\* mutant: the two branches of the selection swapped
conditionally_select_swapped(cond, true_value, false_value) ==
    new(select(cond, false_value.x, true_value.x),
        select(cond, false_value.y, true_value.y))

conditionally_select(cond, true_value, false_value) ==
    LET x == select(cond, true_value.x, false_value.x)
        y == select(cond, true_value.y, false_value.y)
    IN new(x, y)

\* mutant: y3 computed from x3 - x1 instead of x1 - x3
add_unchecked_flipped_y(self, other) ==
    LET lambda == mul_by_inverse_unchecked(FSub(other.y, self.y), FSub(other.x, self.x))
        x3 == FSub(FSub(FSquare(lambda.value), self.x), other.x)
        y3 == FSub(FMul(lambda.value, FSub(x3, self.x)), self.y)
    IN [point |-> new(x3, y3), sat |-> lambda.sat]

add_unchecked(self, other) ==
    LET numerator == FSub(other.y, self.y)
        denominator == FSub(other.x, self.x)
        lambda == mul_by_inverse_unchecked(numerator, denominator)
        x3 == FSub(FSub(FSquare(lambda.value), self.x), other.x)
        y3 == FSub(FMul(lambda.value, FSub(self.x, x3)), self.y)
    IN [point |-> new(x3, y3), sat |-> lambda.sat]

(***************************************************************************)
(* SumAccumulator                                                          *)
(***************************************************************************)
NoAcc == [x1_prev |-> 0, y1_prev |-> 0, lambda_prev |-> 0, x3_prev |-> 0]

Panicked == [panic |-> TRUE, acc |-> NoAcc, sat |-> TRUE]

\* mutant: y1_prev is taken from the second point instead of the first
init_keeps_p2(p1, p2) ==
    LET denominator == FSub(p2.x, p1.x)
        lambda == mul_by_inverse_unchecked(FSub(p2.y, p1.y), denominator)
        x3 == FSub(FSub(FSquare(lambda.value), p1.x), p2.x)
    IN IF denominator = 0 THEN Panicked
       ELSE [panic |-> FALSE,
             acc |-> [x1_prev |-> p1.x, y1_prev |-> p2.y,
                      lambda_prev |-> lambda.value, x3_prev |-> x3],
             sat |-> lambda.sat]

init(p1, p2) ==
    LET numerator == FSub(p2.y, p1.y)
        denominator == FSub(p2.x, p1.x)
        lambda == mul_by_inverse_unchecked(numerator, denominator)
        x3 == FSub(FSub(FSquare(lambda.value), p1.x), p2.x)
    IN IF denominator = 0 THEN Panicked
       ELSE [panic |-> FALSE,
             acc |-> [x1_prev |-> p1.x, y1_prev |-> p1.y,
                      lambda_prev |-> lambda.value, x3_prev |-> x3],
             sat |-> lambda.sat]

finalize(self) ==
    LET y3_prev == FSub(FMul(self.lambda_prev, FSub(self.x1_prev, self.x3_prev)),
                        self.y1_prev)
    IN new(self.x3_prev, y3_prev)

\* mutant: x3 subtracts the predecessor's x instead of the running sum's x
add_native_wrong_x3(self, p) ==
    LET numerator == FAdd(FAdd(FMul(self.lambda_prev,
                                    FSub(self.x3_prev, self.x1_prev)),
                               self.y1_prev), p.y)
        denominator == FSub(p.x, self.x3_prev)
        lambda == mul_by_inverse_unchecked(numerator, denominator)
        x3 == FSub(FSub(FSquare(lambda.value), self.x1_prev), p.x)
    IN IF denominator = 0 THEN Panicked
       ELSE [panic |-> FALSE,
             acc |-> [x1_prev |-> p.x, y1_prev |-> p.y,
                      lambda_prev |-> lambda.value, x3_prev |-> x3],
             sat |-> lambda.sat]

\* mutant: the predecessor point of the previous state is carried over
add_native_stale_prev(self, p) ==
    LET numerator == FAdd(FAdd(FMul(self.lambda_prev,
                                    FSub(self.x3_prev, self.x1_prev)),
                               self.y1_prev), p.y)
        denominator == FSub(p.x, self.x3_prev)
        lambda == mul_by_inverse_unchecked(numerator, denominator)
        x3 == FSub(FSub(FSquare(lambda.value), self.x3_prev), p.x)
    IN IF denominator = 0 THEN Panicked
       ELSE [panic |-> FALSE,
             acc |-> [x1_prev |-> self.x1_prev, y1_prev |-> self.y1_prev,
                      lambda_prev |-> lambda.value, x3_prev |-> x3],
             sat |-> lambda.sat]

\* mutant: the assert on the denominator is missing
add_native_no_assert(self, p) ==
    LET numerator == FAdd(FAdd(FMul(self.lambda_prev,
                                    FSub(self.x3_prev, self.x1_prev)),
                               self.y1_prev), p.y)
        denominator == FSub(p.x, self.x3_prev)
        lambda == mul_by_inverse_unchecked(numerator, denominator)
        x3 == FSub(FSub(FSquare(lambda.value), self.x3_prev), p.x)
    IN [panic |-> FALSE,
        acc |-> [x1_prev |-> p.x, y1_prev |-> p.y,
                 lambda_prev |-> lambda.value, x3_prev |-> x3],
        sat |-> lambda.sat]

add_native(self, p) ==
    LET numerator == FAdd(FAdd(FMul(self.lambda_prev,
                                    FSub(self.x3_prev, self.x1_prev)),
                               self.y1_prev), p.y)
        denominator == FSub(p.x, self.x3_prev)
        lambda == mul_by_inverse_unchecked(numerator, denominator)
        x3 == FSub(FSub(FSquare(lambda.value), self.x3_prev), p.x)
    IN IF denominator = 0 THEN Panicked
       ELSE [panic |-> FALSE,
             acc |-> [x1_prev |-> p.x, y1_prev |-> p.y,
                      lambda_prev |-> lambda.value, x3_prev |-> x3],
             sat |-> lambda.sat]

\* the expression the emulated add enforces to be zero, for a witness lambda:
\* (prod1 + prod2).reduce() - y1_prev - p.y, both products unreduced
enforced_zero(self, p, lambda) ==
    LET prod1 == lambda * FSub(p.x, self.x3_prev)
        prod2 == self.lambda_prev * FSub(self.x1_prev, self.x3_prev)
        reduced == (prod1 + prod2) % Modulus
    IN FSub(FSub(reduced, self.y1_prev), p.y)

\* mutant: the plain-value slope uses x1_prev - x3_prev in the numerator
add_emulated_wrong_lambda(self, p) ==
    LET inv == FInverse(FSub(p.x, self.x3_prev))
    IN IF p.x = self.x3_prev \/ inv = None THEN Panicked
       ELSE LET lambda == FMul(FAdd(FAdd(FMul(self.lambda_prev,
                                              FSub(self.x1_prev, self.x3_prev)),
                                         self.y1_prev), p.y),
                               inv[1])
                zero == enforced_zero(self, p, lambda)
                x3 == FSub(FSub(FSquare(lambda), self.x3_prev), p.x)
            IN [panic |-> FALSE,
                acc |-> [x1_prev |-> p.x, y1_prev |-> p.y,
                         lambda_prev |-> lambda, x3_prev |-> x3],
                sat |-> (zero = 0)]

\* mutant: x3 is computed from the new point's y instead of its x
add_emulated_wrong_x3(self, p) ==
    LET inv == FInverse(FSub(p.x, self.x3_prev))
    IN IF p.x = self.x3_prev \/ inv = None THEN Panicked
       ELSE LET lambda == FMul(FAdd(FAdd(FMul(self.lambda_prev,
                                              FSub(self.x3_prev, self.x1_prev)),
                                         self.y1_prev), p.y),
                               inv[1])
                zero == enforced_zero(self, p, lambda)
                x3 == FSub(FSub(FSquare(lambda), self.x3_prev), p.y)
            IN [panic |-> FALSE,
                acc |-> [x1_prev |-> p.x, y1_prev |-> p.y,
                         lambda_prev |-> lambda, x3_prev |-> x3],
                sat |-> (zero = 0)]

add_emulated(self, p) ==
    LET inv == FInverse(FSub(p.x, self.x3_prev))
    IN IF p.x = self.x3_prev \/ inv = None THEN Panicked
       ELSE LET lambda == FMul(FAdd(FAdd(FMul(self.lambda_prev,
                                              FSub(self.x3_prev, self.x1_prev)),
                                         self.y1_prev), p.y),
                               inv[1])
                zero == enforced_zero(self, p, lambda)
                x3 == FSub(FSub(FSquare(lambda), self.x3_prev), p.x)
            IN [panic |-> FALSE,
                acc |-> [x1_prev |-> p.x, y1_prev |-> p.y,
                         lambda_prev |-> lambda, x3_prev |-> x3],
                sat |-> (zero = 0)]

add(r, self, p) == IF r = "native" THEN add_native(self, p) ELSE add_emulated(self, p)

(***************************************************************************)
(* Tracker: constraint / variable deltas recorded by the loop of           *)
(* generate_constraints.  The aggregation circuit is modelled with         *)
(* F = FpVar (apk_native), where every multiplication, square, division    *)
(* and select allocates one witness and enforces one constraint, whatever  *)
(* the values are.                                                         *)
(***************************************************************************)
NoShape == [ops |-> << >>, num_constraints |-> 0, num_witness_variables |-> 0]

\* mul_by_inverse_unchecked, square and one multiplication
AddUncheckedCost == 3

\* one select per coordinate
SelectCost == 2

update(sh, op, cost) ==
    [ops |-> Append(sh.ops, op),
     num_constraints |-> sh.num_constraints + cost,
     num_witness_variables |-> sh.num_witness_variables + cost]

(***************************************************************************)
(* Initial states: one of the three entry points, with its inputs          *)
(***************************************************************************)
SeqsOf(S, lo, hi) == UNION { [1 .. n -> S] : n \in lo .. hi }

InitAddUnchecked ==
    /\ entry = "add_unchecked"
    /\ regime \in {"native", "emulated"}
    /\ keys \in SeqsOf(CurvePoints, 2, 2)
    /\ seed = NoPoint
    /\ packed_bits = 0
    /\ pc = "start"

InitSumAcc ==
    /\ entry = "sum_acc"
    /\ regime \in {"native", "emulated"}
    /\ keys \in SeqsOf(CurvePoints, 2, MaxPts)
    /\ seed = NoPoint
    /\ packed_bits = 0
    /\ pc = "start"

InitApk ==
    /\ entry = "apk"
    /\ regime = "native"
    /\ keys \in SeqsOf(CurvePoints, 0, MaxKeys)
    /\ seed \in CurvePoints
    /\ packed_bits \in Fp
    /\ pc = "loop"

Init ==
    /\ (InitAddUnchecked \/ InitSumAcc \/ InitApk)
    /\ i = 0
    /\ acc = NoAcc
    /\ sum = NoPoint
    /\ curr_sum = seed
    /\ satisfied = TRUE
    /\ shape = NoShape

(***************************************************************************)
(* Actions                                                                 *)
(***************************************************************************)
\* test_native / test_foreign: p1_var.add_unchecked(&p2_var)
TestAddUnchecked ==
    /\ entry = "add_unchecked" /\ pc = "start"
    /\ LET r == add_unchecked(keys[1], keys[2])
       IN /\ pc' = "done"
          /\ sum' = r.point
          /\ satisfied' = (satisfied /\ r.sat)
    /\ i' = 2
    /\ UNCHANGED <<entry, regime, keys, seed, packed_bits, acc, curr_sum, shape>>

\* SumAccumulator::init(key_vars.next(), key_vars.next())
SumAccInit ==
    /\ entry = "sum_acc" /\ pc = "start"
    /\ LET r == init(keys[1], keys[2])
       IN /\ pc' = IF r.panic THEN "panicked" ELSE "accumulating"
          /\ acc' = r.acc
          /\ satisfied' = (satisfied /\ r.sat)
    /\ i' = 2
    /\ UNCHANGED <<entry, regime, keys, seed, packed_bits, sum, curr_sum, shape>>

SumAccAddWith(r) ==
    /\ pc' = IF r.panic THEN "panicked" ELSE "accumulating"
    /\ acc' = r.acc
    /\ satisfied' = (satisfied /\ r.sat)
    /\ i' = i + 1
    /\ UNCHANGED <<entry, regime, keys, seed, packed_bits, sum, curr_sum, shape>>

\* acc = acc.add(key) with F = FpVar
SumAccAddNative ==
    /\ entry = "sum_acc" /\ pc = "accumulating" /\ regime = "native"
    /\ i < Len(keys)
    /\ SumAccAddWith(add_native(acc, keys[i + 1]))

\* acc = acc.add(key) with F = NonNativeFieldVar
SumAccAddEmulated ==
    /\ entry = "sum_acc" /\ pc = "accumulating" /\ regime = "emulated"
    /\ i < Len(keys)
    /\ SumAccAddWith(add_emulated(acc, keys[i + 1]))

\* acc.finalize()
SumAccFinalize ==
    /\ entry = "sum_acc" /\ pc = "accumulating"
    /\ i = Len(keys)
    /\ pc' = "finalized"
    /\ sum' = finalize(acc)
    /\ UNCHANGED <<entry, regime, keys, seed, packed_bits, i, acc, curr_sum,
                   satisfied, shape>>

\* number of iterations of bit_vars.iter().zip(key_vars)
Steps == Min(ModulusBits, Len(keys))

\* mutant: the addition and the selection are skipped when the bit is false
GenerateConstraintsStepBranching ==
    /\ entry = "apk" /\ pc = "loop"
    /\ i < Steps
    /\ LET b == to_bits_le(packed_bits)[i + 1]
           next_sum == add_unchecked(curr_sum, keys[i + 1])
       IN /\ pc' = "loop"
          /\ curr_sum' = IF b THEN next_sum.point ELSE curr_sum
          /\ satisfied' = (satisfied /\ (b => next_sum.sat))
          /\ shape' = IF b
                      THEN update(update(shape, "add_unchecked", AddUncheckedCost),
                                  "conditionally_select", SelectCost)
                      ELSE shape
    /\ i' = i + 1
    /\ UNCHANGED <<entry, regime, keys, seed, packed_bits, acc, sum>>

\* one iteration of the loop of generate_constraints
GenerateConstraintsStep ==
    /\ entry = "apk" /\ pc = "loop"
    /\ i < Steps
    /\ LET b == to_bits_le(packed_bits)[i + 1]
           key == keys[i + 1]
           next_sum == add_unchecked(curr_sum, key)
       IN /\ pc' = "loop"
          /\ curr_sum' = conditionally_select(b, next_sum.point, curr_sum)
          /\ satisfied' = (satisfied /\ next_sum.sat)
          /\ shape' = update(update(shape, "add_unchecked", AddUncheckedCost),
                             "conditionally_select", SelectCost)
    /\ i' = i + 1
    /\ UNCHANGED <<entry, regime, keys, seed, packed_bits, acc, sum>>

\* the loop is exhausted: Ok(())
GenerateConstraintsReturn ==
    /\ entry = "apk" /\ pc = "loop"
    /\ i = Steps
    /\ pc' = "done"
    /\ UNCHANGED <<entry, regime, keys, seed, packed_bits, i, acc, sum,
                   curr_sum, satisfied, shape>>

Next ==
    \/ TestAddUnchecked
    \/ SumAccInit
    \/ SumAccAddNative
    \/ SumAccAddEmulated
    \/ SumAccFinalize
    \/ GenerateConstraintsStep
    \/ GenerateConstraintsReturn

Spec == Init /\ [][Next]_vars

(***************************************************************************)
(* Helpers of the properties                                               *)
(***************************************************************************)
Prefix(pts, n) == SubSeq(pts, 1, n)

\* no init or add step over pts meets equal x-coordinates, judged by the
\* reference group law
CollisionFree(pts) ==
    /\ Len(pts) >= 2
    /\ pts[1].x # pts[2].x
    /\ \A k \in 3 .. Len(pts) :
          LET s == RefSum(Prefix(pts, k - 1))
          IN ~s.infinity /\ s.x # pts[k].x

\* the accumulator run over pts in regime r: init on the first two points,
\* then add on the rest
RECURSIVE Run(_, _)
Run(r, pts) ==
    IF Len(pts) = 2 THEN init(pts[1], pts[2])
    ELSE LET prev == Run(r, Prefix(pts, Len(pts) - 1))
         IN IF prev.panic THEN Panicked
            ELSE LET nx == add(r, prev.acc, pts[Len(pts)])
                 IN [nx EXCEPT !.sat = (prev.sat /\ nx.sat)]

Perms == [n \in 2 .. MaxPts |->
            { f \in [1 .. n -> 1 .. n] : \A a, b \in 1 .. n : f[a] = f[b] => a = b }]

Permuted(pts, f) == [k \in 1 .. Len(pts) |-> pts[f[k]]]

\* selector bit of key k (1-based), read off the packed value
SelectorBit(k) == ((packed_bits \div (2 ^ (k - 1))) % 2) = 1

\* the keys among the first n whose selector bit is set
RECURSIVE SelectedKeys(_)
SelectedKeys(n) ==
    IF n = 0 THEN << >>
    ELSE IF SelectorBit(n) THEN Append(SelectedKeys(n - 1), keys[n])
    ELSE SelectedKeys(n - 1)

\* the running point of the aggregation after k keys, by the reference law
RECURSIVE RefRunning(_)
RefRunning(k) ==
    IF k = 0 THEN ToAffine(seed)
    ELSE IF SelectorBit(k) THEN RefAdd(RefRunning(k - 1), ToAffine(keys[k]))
    ELSE RefRunning(k - 1)

ApkCollisionFree(n) ==
    \A k \in 1 .. n : ~RefRunning(k - 1).infinity /\ RefRunning(k - 1).x # keys[k].x

ExpectedShape(k) ==
    [ops |-> [j \in 1 .. (2 * k) |->
                IF j % 2 = 1 THEN "add_unchecked" ELSE "conditionally_select"],
     num_constraints |-> k * (AddUncheckedCost + SelectCost),
     num_witness_variables |-> k * (AddUncheckedCost + SelectCost)]

(***************************************************************************)
(* Properties                                                              *)
(***************************************************************************)
\* C1: in the native regime a run over a collision-free sequence of n >= 2
\* points does not fail, and its finalized point is the group-law sum of the
\* points by the reference addition
NativeSumCorrect ==
    (entry = "sum_acc" /\ regime = "native" /\ CollisionFree(Prefix(keys, i)))
        => /\ pc # "panicked"
           /\ pc = "finalized" => ToAffine(sum) = RefSum(keys)

NativeSumWitness ==
    /\ entry = "sum_acc" /\ regime = "native" /\ pc = "finalized"
    /\ Len(keys) = 4 /\ CollisionFree(keys)

\* C2: the emulated run holds, at every step, the accumulator state the
\* native-regime add produces on the same points, and finalizes to the same point
EmulatedMatchesNative ==
    (entry = "sum_acc" /\ regime = "emulated" /\ i >= 2)
        => LET n == Run("native", Prefix(keys, i))
           IN /\ pc = "panicked" <=> n.panic
              /\ pc = "accumulating" => acc = n.acc
              /\ pc = "finalized" => sum = finalize(n.acc)

EmulatedMatchesNativeWitness ==
    /\ entry = "sum_acc" /\ regime = "emulated" /\ pc = "finalized"
    /\ Len(keys) = 4

\* C3: for operands with distinct x, add_unchecked returns the chord-formula
\* point for the slope lambda with lambda*(x2-x1) = y2-y1, which is the group-law
\* sum, and the recorded constraint is satisfied
AddUncheckedCorrect ==
    (entry = "add_unchecked" /\ pc # "start" /\ keys[1].x # keys[2].x)
        => /\ pc = "done"
           /\ satisfied
           /\ \E l \in Fp :
                 /\ FMul(l, FSub(keys[2].x, keys[1].x)) = FSub(keys[2].y, keys[1].y)
                 /\ sum.x = FSub(FSub(FSquare(l), keys[1].x), keys[2].x)
                 /\ sum.y = FSub(FMul(l, FSub(keys[1].x, sum.x)), keys[1].y)
           /\ ToAffine(sum) = RefAdd(ToAffine(keys[1]), ToAffine(keys[2]))

AddUncheckedWitness ==
    /\ entry = "add_unchecked" /\ pc = "done" /\ keys[1].x # keys[2].x
    /\ regime = "emulated"

\* C4: without a collision along the way, the final running point of the
\* aggregation is the seed plus the keys whose selector bit is set, and is the
\* seed itself when no bit is set
ApkAggregationCorrect ==
    (entry = "apk" /\ pc = "done" /\ ApkCollisionFree(i))
        => /\ ToAffine(curr_sum) =
                RefAdd(ToAffine(seed), RefSum(SelectedKeys(Len(keys))))
           /\ (\A k \in 1 .. Len(keys) : ~SelectorBit(k)) => curr_sum = seed

ApkAggregationWitness ==
    /\ entry = "apk" /\ pc = "done" /\ ApkCollisionFree(i)
    /\ Len(keys) = 3 /\ packed_bits = 3

\* C5: in both regimes init on points of equal x, and add of a point whose x
\* is the plain value of x3_prev, fail and return no accumulator state
CollisionAlwaysFails ==
    [][(/\ entry = "sum_acc"
        /\ \/ pc = "start" /\ keys[1].x = keys[2].x
           \/ pc = "accumulating" /\ i < Len(keys) /\ keys[i + 1].x = acc.x3_prev)
          => (pc' = "panicked" /\ acc' = NoAcc /\ sum' = sum)]_vars

CollisionFailsWitness ==
    /\ entry = "sum_acc" /\ regime = "emulated" /\ pc = "panicked" /\ i >= 3

\* C6: add_unchecked on operands of equal x ends in a hard failure and returns
\* no point, standalone and inside the aggregation loop
AddUncheckedCollisionFails ==
    [][(\/ entry = "add_unchecked" /\ pc = "start" /\ keys[1].x = keys[2].x
        \/ entry = "apk" /\ pc = "loop" /\ i < Steps /\ curr_sum.x = keys[i + 1].x)
          => pc' = "panicked"]_vars

\* C7: two collision-free orderings of the same points finalize to the same point
OrderIndependent ==
    (entry = "sum_acc" /\ pc = "finalized")
        => \A f \in Perms[Len(keys)] :
              LET r == Run(regime, Permuted(keys, f))
              IN ~r.panic => finalize(r.acc) = sum

OrderIndependentWitness ==
    /\ entry = "sum_acc" /\ pc = "finalized" /\ Len(keys) = 4
    /\ \E f \in Perms[4] :
          /\ f[1] = 3 /\ f[2] = 4 /\ f[3] = 1 /\ f[4] = 2
          /\ ~Run(regime, Permuted(keys, f)).panic

\* C8: when the point to add has the x of the running sum, no witness lambda
\* makes the expression enforced by the emulated add zero
EmulatedCollisionUnsatisfiable ==
    (/\ entry = "sum_acc" /\ regime = "emulated" /\ pc = "accumulating"
     /\ i < Len(keys) /\ keys[i + 1].x = acc.x3_prev)
        => \A l \in Fp : enforced_zero(acc, keys[i + 1], l) # 0

\* C9: on a collision-free sequence the emulated run does not fail and every
\* constraint it enforced, the identity of each add included, is satisfied by
\* the witness it allocated
EmulatedConstraintsSatisfied ==
    (entry = "sum_acc" /\ regime = "emulated" /\ CollisionFree(Prefix(keys, i)))
        => pc \in {"accumulating", "finalized"} /\ satisfied

EmulatedSatisfiedWitness ==
    /\ entry = "sum_acc" /\ regime = "emulated" /\ pc = "finalized"
    /\ Len(keys) = 4 /\ satisfied

\* C10: the operations performed and the constraints and variables recorded
\* by the aggregation loop depend on the number of iterations only, which
\* depends on the number of keys only, never on the selector bits
ConstantShape ==
    entry = "apk"
        => /\ shape = ExpectedShape(i)
           /\ pc = "done" => i = Min(Len(keys), ModulusBits)

ConstantShapeWitness ==
    /\ entry = "apk" /\ pc = "done" /\ Len(keys) = 3
    /\ packed_bits = 2 /\ shape = ExpectedShape(3)

\* C11: when generate_constraints returns it has run exactly one add/select
\* step per key, whatever the number of keys is relative to the number of bits
\* the selector decodes to
OneStepPerKey ==
    (entry = "apk" /\ pc = "done")
        => /\ i = Len(keys)
           /\ Len(shape.ops) = 2 * Len(keys)

\* the point a state stands for: x3_prev with the y that finalize materializes
Materialized(st) ==
    [x |-> st.x3_prev,
     y |-> FSub(FMul(st.lambda_prev, FSub(st.x1_prev, st.x3_prev)), st.y1_prev)]

\* the state holds the point pt as its predecessor and stands for the
\* group-law sum of the points consumed so far
AccStateHolds(pt) ==
    /\ acc.x1_prev = pt.x
    /\ acc.y1_prev = pt.y
    /\ ToAffine(Materialized(acc)) = RefSum(Prefix(keys, i))

\* C12 (as stated): after init and any number k >= 0 of successful adds, in
\* either regime, x1_prev and y1_prev are those of the last point consumed and
\* the state stands for the sum of the points consumed
AccStateLastConsumed ==
    (entry = "sum_acc" /\ pc = "accumulating") => AccStateHolds(keys[i])

\* C12 (amended): after init alone x1_prev and y1_prev are those of the first
\* point P1, after one or more successful adds those of the last point
\* consumed; in both cases, and in either regime, the state stands for the
\* group-law sum of the points consumed
AccStateInvariant ==
    (entry = "sum_acc" /\ pc = "accumulating")
        => AccStateHolds(IF i = 2 THEN keys[1] ELSE keys[i])

AccStateInvariantWitness ==
    /\ entry = "sum_acc" /\ pc = "accumulating" /\ regime = "native"
    /\ i = 4 /\ keys[4] # keys[3]
====
